---- MODULE Spec2Model ----
(***************************************************************************)
(* A model of cobble: the chat component format of src/chat.rs (its serde  *)
(* derived deserialiser and its Display implementations), the packet loop  *)
(* of main() and the ServerAddress parser of src/main.rs.                  *)
(*                                                                         *)
(* JSON documents are tagged records ([t |-> "str", s |-> ..], ...), an    *)
(* object being a function from its keys to documents.  Results are        *)
(* Ok(v) / Err(e) records.  Chat texts are TLA+ strings; server addresses  *)
(* are sequences of one-character strings, since they are split and        *)
(* parsed character by character.                                          *)
(***************************************************************************)
EXTENDS Integers, Sequences, FiniteSets, TLC

VARIABLES doc, res, out, pc,
          addrIn, addr, addrOut, addrBack, apc,
          reconnect, packets, mpc, printed, panicked

chatVars == <<doc, res, out, pc>>
addrVars == <<addrIn, addr, addrOut, addrBack, apc>>
mainVars == <<reconnect, packets, mpc, printed, panicked>>
vars == <<doc, res, out, pc, addrIn, addr, addrOut, addrBack, apc,
          reconnect, packets, mpc, printed, panicked>>

----------------------------------------------------------------------------
(* Results and options *)

Ok(v) == [ok |-> TRUE, v |-> v]
Err(e) == [ok |-> FALSE, err |-> e]
None == [some |-> FALSE]
Some(x) == [some |-> TRUE, x |-> x]

----------------------------------------------------------------------------
(* JSON documents (serde_json::Value / serde's buffered Content) *)

JNull == [t |-> "null"]
JBool(b) == [t |-> "bool", b |-> b]
JNum(n) == [t |-> "num", n |-> n]
JStr(s) == [t |-> "str", s |-> s]
JArr(a) == [t |-> "arr", a |-> a]
JObj(o) == [t |-> "obj", o |-> o]

Has(o, k) == k \in DOMAIN o

----------------------------------------------------------------------------
(* Deserialisation of the primitive field types *)

\* A required `String` field: the key must be present and hold a string.
DeString(o, k) ==
  IF ~Has(o, k) THEN Err("missing field")
  ELSE IF o[k].t = "str" THEN Ok(o[k].s)
  ELSE Err("invalid type")

\* An `Option<bool>` field: absent or null is None.
DeOptBool(o, k) ==
  IF ~Has(o, k) THEN Ok(None)
  ELSE IF o[k].t = "null" THEN Ok(None)
  ELSE IF o[k].t = "bool" THEN Ok(Some(o[k].b))
  ELSE Err("invalid type")

\* An `Option<String>` field: absent or null is None.
DeOptString(o, k) ==
  IF ~Has(o, k) THEN Ok(None)
  ELSE IF o[k].t = "null" THEN Ok(None)
  ELSE IF o[k].t = "str" THEN Ok(Some(o[k].s))
  ELSE Err("invalid type")

\* A required `serde_json::Value` field: any value, but the key must exist.
DeValue(o, k) ==
  IF ~Has(o, k) THEN Err("missing field") ELSE Ok(o[k])

----------------------------------------------------------------------------
(* ClickEvent: adjacently tagged, tag = "action", content = "value" *)

ClickStringActions ==
  [open_url |-> "OpenUrl", open_file |-> "OpenFile",
   run_command |-> "RunCommand", twitch_user_info |-> "TwitchUserInfo",
   suggest_command |-> "SuggestCommand"]

DeClickVariant(action, value) ==
  IF action.t # "str" THEN Err("invalid type")
  ELSE IF action.s \in DOMAIN ClickStringActions
  THEN IF value.t = "str"
       THEN Ok([variant |-> ClickStringActions[action.s], value |-> value.s])
       ELSE Err("invalid type")
  ELSE IF action.s = "change_page"
  THEN IF value.t = "num" /\ value.n >= 0
       THEN Ok([variant |-> "ChangePage", value |-> value.n])
       ELSE Err("invalid type")
  ELSE Err("unknown variant")

\* The derived visitor takes a map with both keys or a [tag, content] pair.
DeClickEvent(d) ==
  IF d.t = "obj"
  THEN IF Has(d.o, "action") /\ Has(d.o, "value")
       THEN DeClickVariant(d.o["action"], d.o["value"])
       ELSE Err("missing field")
  ELSE IF d.t = "arr"
  THEN IF Len(d.a) = 2 THEN DeClickVariant(d.a[1], d.a[2])
       ELSE Err("invalid length")
  ELSE Err("invalid type")

\* Option<T> around the result of T's deserialiser.
SomeOf(r) == IF r.ok THEN Ok(Some(r.v)) ELSE r

DeOptClickEvent(o, k) ==
  IF ~Has(o, k) THEN Ok(None)
  ELSE IF o[k].t = "null" THEN Ok(None)
  ELSE SomeOf(DeClickEvent(o[k]))

----------------------------------------------------------------------------
(* The component tree of src/chat.rs *)

Raw(text) == [variant |-> "Raw", text |-> text]
Mixed(text, fields) == [variant |-> "Mixed", text |-> text, fields |-> fields]
CString(v) == [variant |-> "String", inner |-> v]
CTranslation(translate, with, fields) ==
  [variant |-> "Translation",
   inner |-> [translate |-> translate, with |-> with, fields |-> fields]]
CKeybind(keybind, fields) ==
  [variant |-> "Keybind", inner |-> [keybind |-> keybind, fields |-> fields]]
CScore(score, fields) ==
  [variant |-> "Score", inner |-> [score |-> score, fields |-> fields]]
CSelector(selector, fields) ==
  [variant |-> "Selector", inner |-> [selector |-> selector, fields |-> fields]]

\* ComponentFields::default()
DefaultFields ==
  [bold |-> None, italic |-> None, underlined |-> None, strikethrough |-> None,
   obfuscated |-> None, color |-> None, insertion |-> None,
   click_event |-> None, hover_event |-> None, extra |-> None]

HoverActions ==
  [show_text |-> "ShowText", show_item |-> "ShowItem",
   show_entity |-> "ShowEntity", show_achievement |-> "ShowAchievement"]

UntaggedComponentError == "data did not match any variant of untagged enum Component"
UntaggedStringError == "data did not match any variant of untagged enum StringComponent"

----------------------------------------------------------------------------
(* The Resolver: what #[derive(Deserialize)] generates for src/chat.rs *)

RECURSIVE ResolveComponent(_)
RECURSIVE ResolveString(_)
RECURSIVE DeFields(_)
RECURSIVE DeVecComponent(_)
RECURSIVE DeHoverEvent(_)

\* The elements' results collected: the first failure fails the whole.
Collect(rs) ==
  IF \A i \in DOMAIN rs : rs[i].ok
  THEN Ok([i \in DOMAIN rs |-> rs[i].v])
  ELSE Err("invalid element")

\* Vec<Component>: an array whose every element resolves.
DeVecComponent(d) ==
  IF d.t # "arr" THEN Err("invalid type")
  ELSE Collect([i \in 1..Len(d.a) |-> ResolveComponent(d.a[i])])

\* HoverEvent: adjacently tagged, the content a boxed StringComponent.
HoverOf(action, r) ==
  IF r.ok THEN Ok([variant |-> HoverActions[action.s], value |-> r.v]) ELSE r

DeHoverVariant(tagged) ==
  IF tagged.action.t # "str" THEN Err("invalid type")
  ELSE IF tagged.action.s \notin DOMAIN HoverActions THEN Err("unknown variant")
  ELSE HoverOf(tagged.action, ResolveString(tagged.value))

\* The derived visitor takes a map with both keys or a [tag, content] pair.
DeHoverEvent(d) ==
  IF d.t = "obj" /\ ~(Has(d.o, "action") /\ Has(d.o, "value"))
  THEN Err("missing field")
  ELSE IF d.t = "arr" /\ Len(d.a) # 2 THEN Err("invalid length")
  ELSE IF d.t \notin {"obj", "arr"} THEN Err("invalid type")
  ELSE DeHoverVariant(
         IF d.t = "obj" THEN [action |-> d.o["action"], value |-> d.o["value"]]
         ELSE [action |-> d.a[1], value |-> d.a[2]])

DeOptHoverEvent(o, k) ==
  IF ~Has(o, k) THEN Ok(None)
  ELSE IF o[k].t = "null" THEN Ok(None)
  ELSE SomeOf(DeHoverEvent(o[k]))

\* Option<Vec<Component>>
DeOptExtra(o, k) ==
  IF ~Has(o, k) THEN Ok(None)
  ELSE IF o[k].t = "null" THEN Ok(None)
  ELSE SomeOf(DeVecComponent(o[k]))

FieldsOf(bold, italic, underlined, strikethrough, obfuscated, color, insertion, click_event, hover_event, extra) ==
  IF bold.ok /\ italic.ok /\ underlined.ok /\ strikethrough.ok
     /\ obfuscated.ok /\ color.ok /\ insertion.ok /\ click_event.ok
     /\ hover_event.ok /\ extra.ok
  THEN Ok([bold |-> bold.v, italic |-> italic.v,
           underlined |-> underlined.v, strikethrough |-> strikethrough.v,
           obfuscated |-> obfuscated.v, color |-> color.v,
           insertion |-> insertion.v, click_event |-> click_event.v,
           hover_event |-> hover_event.v, extra |-> extra.v])
  ELSE Err("invalid fields")

\* ComponentFields, flattened into its parent: read from the parent's keys
\* under their camelCase names; every other key is ignored.
DeFields(o) ==
  FieldsOf(DeOptBool(o, "bold"), DeOptBool(o, "italic"),
           DeOptBool(o, "underlined"), DeOptBool(o, "strikethrough"),
           DeOptBool(o, "obfuscated"), DeOptString(o, "color"),
           DeOptString(o, "insertion"), DeOptClickEvent(o, "clickEvent"),
           DeOptHoverEvent(o, "hoverEvent"), DeOptExtra(o, "extra"))

MixedOf(text, fields) ==
  IF ~text.ok THEN text
  ELSE IF ~fields.ok THEN fields
  ELSE Ok(Mixed(text.v, fields.v))

\* StringComponent::Mixed { text, #[serde(flatten)] fields }: a map only.
DeMixed(d) ==
  IF d.t # "obj" THEN Err("invalid type")
  ELSE MixedOf(DeString(d.o, "text"), DeFields(d.o))

\* The untagged enum's error in place of its last variant's.
OrUntagged(r, e) == IF r.ok THEN r ELSE Err(e)

\* StringComponent without its Raw variant.
ResolveStringMixedOnly(d) == OrUntagged(DeMixed(d), UntaggedStringError)

\* #[serde(untagged)] StringComponent: Raw(String), then Mixed.
ResolveString(d) ==
  IF d.t = "str" THEN Ok(Raw(d.s))
  ELSE OrUntagged(DeMixed(d), UntaggedStringError)

\* TranslationComponent { translate, with, #[serde(flatten)] fields }:
\* `with` carries no #[serde(default)], so a missing key is an error.
WithField(o) ==
  IF ~Has(o, "with") THEN Err("missing field") ELSE DeVecComponent(o["with"])

TranslationOf(translate, with, fields) ==
  IF ~translate.ok THEN translate
  ELSE IF ~with.ok THEN with
  ELSE IF ~fields.ok THEN fields
  ELSE Ok(CTranslation(translate.v, with.v, fields.v))

DeTranslation(d) ==
  IF d.t # "obj" THEN Err("invalid type")
  ELSE TranslationOf(DeString(d.o, "translate"), WithField(d.o), DeFields(d.o))

KeybindOf(keybind, fields) ==
  IF ~keybind.ok THEN keybind
  ELSE IF ~fields.ok THEN fields
  ELSE Ok(CKeybind(keybind.v, fields.v))

DeKeybind(d) ==
  IF d.t # "obj" THEN Err("invalid type")
  ELSE KeybindOf(DeString(d.o, "keybind"), DeFields(d.o))

ScoreOf(score, fields) ==
  IF ~score.ok THEN score
  ELSE IF ~fields.ok THEN fields
  ELSE Ok(CScore(score.v, fields.v))

DeScore(d) ==
  IF d.t # "obj" THEN Err("invalid type")
  ELSE ScoreOf(DeValue(d.o, "score"), DeFields(d.o))

SelectorOf(selector, fields) ==
  IF ~selector.ok THEN selector
  ELSE IF ~fields.ok THEN fields
  ELSE Ok(CSelector(selector.v, fields.v))

DeSelector(d) ==
  IF d.t # "obj" THEN Err("invalid type")
  ELSE SelectorOf(DeValue(d.o, "selector"), DeFields(d.o))

\* Component::String(StringComponent)
StringOf(r) == IF r.ok THEN Ok(CString(r.v)) ELSE r

\* The variants of Component in declaration order, each with its deserialiser.
TryVariant(i, d) ==
  CASE i = 1 -> StringOf(ResolveString(d))
    [] i = 2 -> DeTranslation(d)
    [] i = 3 -> DeKeybind(d)
    [] i = 4 -> DeScore(d)
    [] i = 5 -> DeSelector(d)

\* Translation declared ahead of String.
VariantOrderSwapped == <<2, 1, 3, 4, 5>>

\* The declaration order of Component's variants:
\* String, Translation, Keybind, Score, Selector.
VariantOrder == <<1, 2, 3, 4, 5>>

\* #[serde(untagged)] Component: the variants are tried in declaration order
\* and the first that deserialises wins; every variant's own error is
\* dropped for the one fixed message.
RECURSIVE FirstOk(_, _)
OrNext(r, order, d) == IF r.ok THEN r ELSE FirstOk(order, d)

FirstOk(order, d) ==
  IF order = <<>> THEN Err(UntaggedComponentError)
  ELSE OrNext(TryVariant(Head(order), d), Tail(order), d)

ResolveComponent(d) == FirstOk(VariantOrder, d)

----------------------------------------------------------------------------
(* #[derive(Debug)]: the structural dump ("{:?}", not pretty printed).     *)
(* String escapes are not modelled: the texts of the model hold no quote,  *)
(* backslash or control character.                                         *)

DebugStr(s) == "\"" \o s \o "\""
DebugBool(b) == IF b THEN "true" ELSE "false"

RECURSIVE JoinComma(_)
JoinComma(ss) ==
  IF ss = <<>> THEN ""
  ELSE IF Len(ss) = 1 THEN ss[1]
  ELSE ss[1] \o ", " \o JoinComma(Tail(ss))

\* serde_json::Value, for the values the model feeds to `score`/`selector`.
DebugValue(v) ==
  CASE v.t = "null" -> "Null"
    [] v.t = "bool" -> "Bool(" \o DebugBool(v.b) \o ")"
    [] v.t = "str" -> "String(" \o DebugStr(v.s) \o ")"

DebugClickEvent(e) ==
  e.variant \o "("
    \o (IF e.variant = "ChangePage" THEN ToString(e.value) ELSE DebugStr(e.value))
    \o ")"

RECURSIVE DebugComponent(_)
RECURSIVE DebugStringComponent(_)
RECURSIVE DebugFields(_)

DebugOptBool(o) == IF o.some THEN "Some(" \o DebugBool(o.x) \o ")" ELSE "None"
DebugOptStr(o) == IF o.some THEN "Some(" \o DebugStr(o.x) \o ")" ELSE "None"
DebugOptClick(o) ==
  IF o.some THEN "Some(" \o DebugClickEvent(o.x) \o ")" ELSE "None"
DebugOptHover(o) ==
  IF o.some
  THEN "Some(" \o o.x.variant \o "(" \o DebugStringComponent(o.x.value) \o "))"
  ELSE "None"
DebugVec(cs) ==
  "[" \o JoinComma([i \in 1..Len(cs) |-> DebugComponent(cs[i])]) \o "]"
DebugOptExtra(o) == IF o.some THEN "Some(" \o DebugVec(o.x) \o ")" ELSE "None"

DebugFields(f) ==
  "ComponentFields { bold: " \o DebugOptBool(f.bold)
    \o ", italic: " \o DebugOptBool(f.italic)
    \o ", underlined: " \o DebugOptBool(f.underlined)
    \o ", strikethrough: " \o DebugOptBool(f.strikethrough)
    \o ", obfuscated: " \o DebugOptBool(f.obfuscated)
    \o ", color: " \o DebugOptStr(f.color)
    \o ", insertion: " \o DebugOptStr(f.insertion)
    \o ", click_event: " \o DebugOptClick(f.click_event)
    \o ", hover_event: " \o DebugOptHover(f.hover_event)
    \o ", extra: " \o DebugOptExtra(f.extra) \o " }"

DebugStringComponent(v) ==
  IF v.variant = "Raw" THEN "Raw(" \o DebugStr(v.text) \o ")"
  ELSE "Mixed { text: " \o DebugStr(v.text)
         \o ", fields: " \o DebugFields(v.fields) \o " }"

DebugTranslation(v) ==
  "TranslationComponent { translate: " \o DebugStr(v.translate)
    \o ", with: " \o DebugVec(v.with)
    \o ", fields: " \o DebugFields(v.fields) \o " }"
DebugKeybind(v) ==
  "KeybindComponent { keybind: " \o DebugStr(v.keybind)
    \o ", fields: " \o DebugFields(v.fields) \o " }"
DebugScore(v) ==
  "ScoreComponent { score: " \o DebugValue(v.score)
    \o ", fields: " \o DebugFields(v.fields) \o " }"
DebugSelector(v) ==
  "SelectorComponent { selector: " \o DebugValue(v.selector)
    \o ", fields: " \o DebugFields(v.fields) \o " }"

DebugComponent(c) ==
  c.variant \o "("
    \o (CASE c.variant = "String" -> DebugStringComponent(c.inner)
          [] c.variant = "Translation" -> DebugTranslation(c.inner)
          [] c.variant = "Keybind" -> DebugKeybind(c.inner)
          [] c.variant = "Score" -> DebugScore(c.inner)
          [] c.variant = "Selector" -> DebugSelector(c.inner))
    \o ")"

----------------------------------------------------------------------------
(* The Renderer: the fmt::Display implementations of src/chat.rs *)

RECURSIVE DisplayComponent(_)
RECURSIVE Concat(_)

\* Successive writes to the formatter.
Concat(ss) == IF ss = <<>> THEN "" ELSE Head(ss) \o Concat(Tail(ss))

\* The extra children written last to first.
DisplayExtraReversed(fields) ==
  IF fields.extra.some
  THEN Concat([i \in 1..Len(fields.extra.x) |->
                 DisplayComponent(fields.extra.x[Len(fields.extra.x) + 1 - i])])
  ELSE ""

\* `if let Some(extra) = &fields.extra { for extra in extra { extra.fmt(f)? } }`
DisplayExtra(fields) ==
  IF fields.extra.some
  THEN Concat([i \in 1..Len(fields.extra.x) |-> DisplayComponent(fields.extra.x[i])])
  ELSE ""

DisplayString(v) ==
  IF v.variant = "Raw" THEN v.text
  ELSE v.text \o DisplayExtra(v.fields)

\* The arguments written without the separating space.
DisplayWithNoSpace(with) ==
  Concat([i \in 1..Len(with) |-> DisplayComponent(with[i])])

\* `for component in &self.with { f.write_char(' ')?; component.fmt(f)? }`
DisplayWith(with) ==
  Concat([i \in 1..Len(with) |-> " " \o DisplayComponent(with[i])])

DisplayTranslation(v) ==
  "[" \o v.translate \o "]" \o DisplayWith(v.with) \o DisplayExtra(v.fields)

DisplayComponent(c) ==
  CASE c.variant = "String" -> DisplayString(c.inner)
    [] c.variant = "Translation" -> DisplayTranslation(c.inner)
    [] c.variant = "Keybind" -> DebugKeybind(c.inner)
    [] c.variant = "Score" -> DebugScore(c.inner)
    [] c.variant = "Selector" -> DebugSelector(c.inner)

----------------------------------------------------------------------------
(* The documents the model resolves *)

\* The longest `with` / `extra` array of a generated document.
MaxArgs == 2

Absent == [t |-> "absent"]

\* The object holding the keys of `choice` that are not Absent.
Build(choice) ==
  JObj([k \in {x \in DOMAIN choice : choice[x] # Absent} |-> choice[k]])

Merge(a, b) == JObj(a.o @@ b.o)

\* The section 6 example of the format (test::player_join).
ExampleDoc ==
  JObj([color |-> JStr("yellow"),
        translate |-> JStr("multiplayer.player.joined"),
        with |-> JArr(<<
          JObj([insertion |-> JStr("Username"),
                clickEvent |-> JObj([action |-> JStr("suggest_command"),
                                     value |-> JStr("/tell Username ")]),
                hoverEvent |-> JObj([action |-> JStr("show_entity"),
                                     value |-> JObj([text |-> JStr("Hover")])]),
                text |-> JStr("Username")]) >>)])

\* Array elements: a bare string, a styled Mixed string, a keybind, a nested
\* translation with an argument and a child, and an object of no kind.
Children ==
  { JStr("a"),
    JObj([text |-> JStr("b"), bold |-> JBool(TRUE)]),
    JObj([keybind |-> JStr("key.jump")]),
    JObj([translate |-> JStr("k"), with |-> JArr(<<JStr("b")>>),
          extra |-> JArr(<<JStr("c")>>)]),
    JObj(<<>>) }

Arrays == { JArr(a) : a \in UNION { [1..n -> Children] : n \in 0..MaxArgs } }

\* Every combination of the five kinds' keys, with right and wrong types.
KindParts ==
  { Build(c) : c \in
      [text : {Absent, JStr("a"), JNum(1)},
       translate : {Absent, JStr("k")},
       with : {Absent, JStr("x")} \cup Arrays,
       keybind : {Absent, JStr("key.jump")},
       score : {Absent, JNull},
       selector : {Absent, JStr("@p")}] }

FewKinds ==
  { JObj(<<>>),
    JObj([text |-> JStr("a")]),
    JObj([text |-> JStr("a"), translate |-> JStr("k")]),
    JObj([translate |-> JStr("k"), with |-> JArr(<<JStr("a")>>)]),
    JObj([keybind |-> JStr("key.jump")]),
    JObj([score |-> JBool(TRUE)]),
    JObj([selector |-> JStr("@p")]) }

ValidClick == JObj([action |-> JStr("run_command"), value |-> JStr("/x")])
PageClick == JArr(<<JStr("change_page"), JNum(2)>>)
BadClick == JObj([action |-> JStr("change_page"), value |-> JStr("/x")])
ValidHover == JObj([action |-> JStr("show_text"),
                    value |-> JObj([text |-> JStr("h"), italic |-> JBool(FALSE)])])
BadHover == JObj([action |-> JStr("show_text"), value |-> JNum(1)])

\* Every combination of style and event attributes, right and wrong.
StyleParts ==
  { Build(c) : c \in
      [bold : {Absent, JBool(TRUE), JStr("x")},
       color : {Absent, JStr("red")},
       clickEvent : {Absent, ValidClick, PageClick, BadClick},
       hoverEvent : {Absent, ValidHover, BadHover}] }

\* Every `extra`, alone and beside a style flag.
ExtraParts ==
  { Build(c) : c \in
      [italic : {Absent, JBool(TRUE)},
       extra : {JNull, JStr("x")} \cup Arrays] }

FewAttrs ==
  { JObj(<<>>),
    JObj([bold |-> JStr("x")]),
    JObj([bold |-> JBool(TRUE), italic |-> JBool(FALSE), underlined |-> JNull,
          strikethrough |-> JBool(TRUE), obfuscated |-> JBool(FALSE),
          color |-> JStr("red"), insertion |-> JStr("i"),
          unknown |-> JNum(1)]) }

Docs ==
  { Merge(k, a) : k \in KindParts, a \in FewAttrs }
    \cup { Merge(k, a) : k \in FewKinds, a \in StyleParts \cup ExtraParts }
    \cup { JStr("string"), JStr(""), JStr("a b"), JNull, JNum(1), JBool(TRUE),
           JArr(<<>>), JArr(<<JStr("k"), JArr(<<>>)>>), ExampleDoc }

----------------------------------------------------------------------------
(* Resolve-then-render of one inbound document:                            *)
(* serde_json::from_str::<chat::Component>(..) and println!("{}", msg)     *)

Pending == Err("pending")

ChatIdle == doc = JNull /\ res = Pending /\ out = "" /\ pc = "idle"
AddrIdle ==
  addrIn = <<>> /\ addr = Pending /\ addrOut = <<>> /\ addrBack = Pending
    /\ apc = "idle"
MainIdle ==
  reconnect = FALSE /\ packets = <<>> /\ mpc = "idle" /\ printed = ""
    /\ panicked = "no"

Init ==
  /\ doc \in Docs
  /\ res = Pending
  /\ out = ""
  /\ pc = "start"
  /\ AddrIdle
  /\ MainIdle

Resolve ==
  /\ pc = "start"
  /\ res' = ResolveComponent(doc)
  /\ pc' = "resolved"
  /\ UNCHANGED <<doc, out, addrVars, mainVars>>

Render ==
  /\ pc = "resolved"
  /\ res.ok
  /\ out' = DisplayComponent(res.v)
  /\ pc' = "rendered"
  /\ UNCHANGED <<doc, res, addrVars, mainVars>>

Next == Resolve \/ Render

Spec == Init /\ [][Next]_vars

----------------------------------------------------------------------------
(* Properties of the Resolver and the Renderer (specification Spec) *)

Resolved == pc \in {"resolved", "rendered"}
Rendered == pc = "rendered"
IsObject == doc.t = "obj"
HasString(o, k) == Has(o, k) /\ o[k].t = "str"

KindName == <<"String", "Translation", "Keybind", "Score", "Selector">>

\* The required keys of the i-th kind are present with valid value types.
RequiredOk(i, o) ==
  CASE i = 1 -> HasString(o, "text")
    [] i = 2 -> HasString(o, "translate") /\ Has(o, "with")
                  /\ DeVecComponent(o["with"]).ok
    [] i = 3 -> HasString(o, "keybind")
    [] i = 4 -> Has(o, "score")
    [] i = 5 -> Has(o, "selector")

FirstKind(o) ==
  CHOOSE i \in 1..5 : RequiredOk(i, o) /\ \A j \in 1..(i - 1) : ~RequiredOk(j, o)

\* C1 as amended: an object whose attribute keys (bold .. extra) hold valid
\* values resolves to the first kind, in the order String, Translation,
\* Keybind, Score, Selector, whose required keys are present with valid
\* value types, and fails when there is none; in particular one with a
\* string `text` and a `translate` key resolves to a String Mixed node with
\* that text.  An object with an invalid attribute value resolves to no kind.
C1_FirstKindWins ==
  (Resolved /\ IsObject) =>
    IF DeFields(doc.o).ok /\ \E i \in 1..5 : RequiredOk(i, doc.o)
    THEN /\ res.ok
         /\ res.v.variant = KindName[FirstKind(doc.o)]
         /\ (HasString(doc.o, "text") /\ Has(doc.o, "translate")) =>
              /\ res.v.variant = "String"
              /\ res.v.inner.variant = "Mixed"
              /\ res.v.inner.text = doc.o["text"].s
    ELSE ~res.ok

\* C1 as stated: every object with a string `text` and a `translate` key
\* resolves to a String Mixed node.
C1_AsStated ==
  (Resolved /\ IsObject /\ HasString(doc.o, "text") /\ Has(doc.o, "translate")) =>
    (res.ok /\ res.v.variant = "String" /\ res.v.inner.variant = "Mixed")

C1_Witness ==
  /\ Resolved /\ IsObject
  /\ HasString(doc.o, "text") /\ RequiredOk(2, doc.o) /\ Len(doc.o["with"].a) = 1
  /\ res.ok /\ res.v.variant = "String"

\* C2: a Translation node renders as "[" key "]", then one space and the
\* rendered form of each argument in stored order, then the rendered extra
\* children in stored order; the section 6 example resolves to a Translation
\* node with one Mixed string argument and renders as
\* "[multiplayer.player.joined] Username".
C2_TranslationRender ==
  /\ (Rendered /\ res.v.variant = "Translation") =>
       LET t == res.v.inner
           args == [i \in 1..Len(t.with) |-> " " \o DisplayComponent(t.with[i])]
           kids == IF t.fields.extra.some
                   THEN [i \in 1..Len(t.fields.extra.x) |->
                           DisplayComponent(t.fields.extra.x[i])]
                   ELSE <<>>
       IN out = "[" \o t.translate \o "]" \o Concat(args) \o Concat(kids)
  /\ (Resolved /\ doc = ExampleDoc) =>
       /\ res.ok
       /\ res.v.variant = "Translation"
       /\ res.v.inner.translate = "multiplayer.player.joined"
       /\ Len(res.v.inner.with) = 1
       /\ res.v.inner.with[1].variant = "String"
       /\ res.v.inner.with[1].inner.variant = "Mixed"
       /\ res.v.inner.with[1].inner.text = "Username"
  /\ (Rendered /\ doc = ExampleDoc) => out = "[multiplayer.player.joined] Username"

C2_Witness ==
  /\ Rendered /\ res.v.variant = "Translation"
  /\ Len(res.v.inner.with) = 2
  /\ res.v.inner.with[1] # res.v.inner.with[2]
  /\ out = "[k] a [k] bc"

\* C3: a Mixed string node renders as its text followed by the rendered form
\* of every extra child in stored order, and as its text alone when extra is
\* absent; with two children of different rendered forms swapped, the output
\* is the text followed by the two rendered forms in the swapped order.
C3_MixedRender ==
  (Rendered /\ res.v.variant = "String" /\ res.v.inner.variant = "Mixed") =>
    LET m == res.v.inner
        kids == IF m.fields.extra.some THEN m.fields.extra.x ELSE <<>>
        r == [i \in 1..Len(kids) |-> DisplayComponent(kids[i])]
        swapped == CString(Mixed(m.text,
                     [m.fields EXCEPT !.extra = Some(<<kids[2], kids[1]>>)]))
    IN /\ out = m.text \o Concat(r)
       /\ ~m.fields.extra.some => out = m.text
       /\ (Len(kids) = 2 /\ r[1] # r[2]) =>
            /\ out = m.text \o r[1] \o r[2]
            /\ DisplayComponent(swapped) = m.text \o r[2] \o r[1]

C3_Witness ==
  /\ Rendered /\ res.v.variant = "String" /\ res.v.inner.variant = "Mixed"
  /\ res.v.inner.fields.extra.some
  /\ Len(res.v.inner.fields.extra.x) = 2
  /\ res.v.inner.fields.extra.x[1] # res.v.inner.fields.extra.x[2]
  /\ out = "aba"

RECURSIVE ClearStyle(_)
ClearFields(f) ==
  [DefaultFields EXCEPT
     !.extra = IF f.extra.some
               THEN Some([i \in 1..Len(f.extra.x) |-> ClearStyle(f.extra.x[i])])
               ELSE None]

\* The tree with bold, italic, underlined, strikethrough, obfuscated, color,
\* insertion, clickEvent and hoverEvent removed from every node.
ClearStyle(c) ==
  CASE c.variant = "String" ->
         IF c.inner.variant = "Raw" THEN c
         ELSE CString(Mixed(c.inner.text, ClearFields(c.inner.fields)))
    [] c.variant = "Translation" ->
         CTranslation(c.inner.translate,
                      [i \in 1..Len(c.inner.with) |-> ClearStyle(c.inner.with[i])],
                      ClearFields(c.inner.fields))
    [] c.variant = "Keybind" ->
         CKeybind(c.inner.keybind, ClearFields(c.inner.fields))
    [] c.variant = "Score" -> CScore(c.inner.score, ClearFields(c.inner.fields))
    [] c.variant = "Selector" ->
         CSelector(c.inner.selector, ClearFields(c.inner.fields))

\* C4: style flags and click/hover attributes do not reach the text: a tree
\* renders as the same tree with those attributes removed from every node
\* (so any two trees that differ only in them render alike).
C4_StyleInert ==
  Rendered => out = DisplayComponent(ClearStyle(res.v))

\* C5: an object with a string `translate`, no `text` and no `with` (its
\* attributes valid) resolves to a Translation node with no arguments.
C5_WithDefaultsEmpty ==
  (Resolved /\ IsObject /\ HasString(doc.o, "translate")
     /\ ~Has(doc.o, "text") /\ ~Has(doc.o, "with") /\ DeFields(doc.o).ok) =>
    (res.ok /\ res.v.variant = "Translation" /\ res.v.inner.with = <<>>)

\* C6: the failure of a document whose `with` is not an array is reported
\* with another error than the failure of the empty object.
C6_DistinctErrors ==
  (Resolved /\ IsObject /\ Has(doc.o, "with") /\ doc.o["with"].t # "arr"
     /\ ~res.ok) =>
    res.err # ResolveComponent(JObj(<<>>)).err

\* C9: a bare JSON string resolves to the Raw string node of the same
\* contents and renders as exactly that string.
C9_BareString ==
  doc.t = "str" =>
    /\ Resolved => res = Ok(CString(Raw(doc.s)))
    /\ Rendered => out = doc.s

C9_Witness == Rendered /\ doc = JStr("string") /\ out = "string"

----------------------------------------------------------------------------
(* ServerAddress (src/main.rs): texts are sequences of characters *)

\* The longest port text of a generated address.
MaxPort == 5

DefaultPort == 25565
U16Max == 2 ^ 16 - 1

Digits == <<"0", "1", "2", "3", "4", "5", "6", "7", "8", "9">>
IsDigit(c) == \E i \in 1..10 : Digits[i] = c
DigitValue(c) == (CHOOSE i \in 1..10 : Digits[i] = c) - 1

\* s.rfind(':')
RFind(s) ==
  IF \E i \in 1..Len(s) : s[i] = ":"
  THEN Some(CHOOSE i \in 1..Len(s) : s[i] = ":" /\ \A j \in (i + 1)..Len(s) : s[j] # ":")
  ELSE None

\* The first ':' of s.
Find(s) ==
  IF \E i \in 1..Len(s) : s[i] = ":"
  THEN Some(CHOOSE i \in 1..Len(s) : s[i] = ":" /\ \A j \in 1..(i - 1) : s[j] # ":")
  ELSE None

\* The digit loop of u16::from_str: checked_mul(10), then checked_add(digit).
RECURSIVE ParseDigits(_, _)
ParseDigits(s, acc) ==
  IF s = <<>> THEN Ok(acc)
  ELSE IF ~IsDigit(Head(s)) THEN Err("ParseIntError")
  ELSE IF acc * 10 > U16Max THEN Err("ParseIntError")
  ELSE IF acc * 10 + DigitValue(Head(s)) > U16Max THEN Err("ParseIntError")
  ELSE ParseDigits(Tail(s), acc * 10 + DigitValue(Head(s)))

\* u16::from_str: an optional '+', then at least one digit.
U16FromStr(s) ==
  IF s = <<>> THEN Err("ParseIntError")
  ELSE LET digits == IF Head(s) = "+" THEN Tail(s) ELSE s
       IN IF digits = <<>> THEN Err("ParseIntError") ELSE ParseDigits(digits, 0)

\* The port after the first ':' instead of the last.
FromStrFirstColon(s) ==
  LET at == Find(s)
  IN IF at.some
     THEN LET port == U16FromStr(SubSeq(s, at.x + 1, Len(s)))
          IN IF port.ok
             THEN Ok([host |-> SubSeq(s, 1, at.x - 1), port |-> port.v])
             ELSE port
     ELSE Ok([host |-> s, port |-> DefaultPort])

\* impl FromStr for ServerAddress: rsplitn(2, ':') gives the text after the
\* last ':' (the port) and then the text before it (the host).
FromStr(s) ==
  LET at == RFind(s)
  IN IF at.some
     THEN LET port == U16FromStr(SubSeq(s, at.x + 1, Len(s)))
          IN IF port.ok
             THEN Ok([host |-> SubSeq(s, 1, at.x - 1), port |-> port.v])
             ELSE port
     ELSE Ok([host |-> s, port |-> DefaultPort])

\* The decimal text of a u16 ("{}").
RECURSIVE U16ToString(_)
U16ToString(n) ==
  IF n < 10 THEN <<Digits[n + 1]>>
  ELSE U16ToString(n \div 10) \o <<Digits[(n % 10) + 1]>>

\* impl fmt::Display for ServerAddress: "{}:{}"
DisplayAddress(a) == a.host \o <<":">> \o U16ToString(a.port)

SeqsUpTo(S, n) == UNION { [1..m -> S] : m \in 0..n }

Hosts ==
  { <<>>, <<"h">>, <<":">>, <<"h", ":">>, <<"h", "h", ":">>, <<":", ":">>,
    <<"h", ":", "5", ":">>, <<"h", ":", "h", ":">> }

AddrInputs ==
  { h \o p : h \in Hosts, p \in SeqsUpTo({"0", "3", "5", "6", "+"}, MaxPort) }
    \cup { <<"h", ":", "6", "h">>, <<"h", ":", "-", "5">>, <<"h", ":", "5", "+">>,
           <<"1", "2", "7", ".", "0", ".", "0", ".", "1">>,
           <<"1", "2", "7", ".", "0", ".", "0", ".", "1", ":", "2", "5", "5", "6", "6">> }

InitAddr ==
  /\ addrIn \in AddrInputs
  /\ addr = Pending
  /\ addrOut = <<>>
  /\ addrBack = Pending
  /\ apc = "start"
  /\ ChatIdle
  /\ MainIdle

\* ServerAddress::from_str(s)
ParseAddress ==
  /\ apc = "start"
  /\ addr' = FromStr(addrIn)
  /\ apc' = "parsed"
  /\ UNCHANGED <<addrIn, addrOut, addrBack, chatVars, mainVars>>

\* format!("{}", r)
FormatAddress ==
  /\ apc = "parsed"
  /\ addr.ok
  /\ addrOut' = DisplayAddress(addr.v)
  /\ apc' = "displayed"
  /\ UNCHANGED <<addrIn, addr, addrBack, chatVars, mainVars>>

\* ServerAddress::from_str on the displayed form
ReparseAddress ==
  /\ apc = "displayed"
  /\ addrBack' = FromStr(addrOut)
  /\ apc' = "reparsed"
  /\ UNCHANGED <<addrIn, addr, addrOut, chatVars, mainVars>>

NextAddr == ParseAddress \/ FormatAddress \/ ReparseAddress

SpecAddr == InitAddr /\ [][NextAddr]_vars

----------------------------------------------------------------------------
(* Properties of ServerAddress (specification SpecAddr) *)

HasColon(s) == \E i \in 1..Len(s) : s[i] = ":"
LastColon(s) == CHOOSE i \in 1..Len(s) : s[i] = ":" /\ ~HasColon(SubSeq(s, i + 1, Len(s)))

\* The value of a text of decimal digits.
RECURSIVE DecimalValue(_)
DecimalValue(s) ==
  IF s = <<>> THEN 0
  ELSE DecimalValue(SubSeq(s, 1, Len(s) - 1)) * 10 + DigitValue(s[Len(s)])

AllDigits(s) == s # <<>> /\ \A i \in 1..Len(s) : IsDigit(s[i])
Unsigned(s) == IF s # <<>> /\ s[1] = "+" THEN Tail(s) ELSE s
IsU16Text(s) == AllDigits(Unsigned(s)) /\ DecimalValue(Unsigned(s)) <= 65535

\* C10: without ':' the input is the host and the port is 25565; with ':' the
\* input is split at its last ':' into host and port, the port a 16-bit
\* unsigned integer or else an error; the displayed form is host ":" port in
\* decimal; parsing the displayed form returns the same address.
C10_ParseDisplay ==
  /\ (apc # "start" /\ ~HasColon(addrIn)) => addr = Ok([host |-> addrIn, port |-> 25565])
  /\ (apc # "start" /\ HasColon(addrIn)) =>
       LET i == LastColon(addrIn)
           p == SubSeq(addrIn, i + 1, Len(addrIn))
       IN IF IsU16Text(p)
          THEN addr = Ok([host |-> SubSeq(addrIn, 1, i - 1),
                          port |-> DecimalValue(Unsigned(p))])
          ELSE ~addr.ok
  /\ (apc \in {"displayed", "reparsed"}) =>
       LET n == Len(addr.v.host)
           p == SubSeq(addrOut, n + 2, Len(addrOut))
       IN /\ Len(addrOut) >= n + 2
          /\ SubSeq(addrOut, 1, n) = addr.v.host
          /\ addrOut[n + 1] = ":"
          /\ AllDigits(p)
          /\ DecimalValue(p) = addr.v.port
          /\ (Len(p) > 1 => p[1] # "0")
  /\ (apc = "reparsed") => (addrBack.ok /\ addrBack.v = addr.v)

C10_Witness ==
  /\ apc = "reparsed"
  /\ addrIn = <<"h", ":", "5", ":", "+", "0", "6", "5">>
  /\ addr.v = [host |-> <<"h", ":", "5">>, port |-> 65]
  /\ addrOut = <<"h", ":", "5", ":", "6", "5">>
  /\ addrBack = addr

----------------------------------------------------------------------------
(* The packet loop of main() (src/main.rs) *)

\* The most packets one client.read() returns.
MaxBatch == 2

\* The player's own name, as connect_to_server returned it.
Username == "me"

\* A chat or reason text as it arrives: the raw text and the JSON document
\* it parses to (None when the text is not JSON).
Payload(raw, json) == [raw |-> raw, json |-> json]

ChatOf(name) ==
  JObj([translate |-> JStr("chat.type.text"),
        with |-> JArr(<<JObj([text |-> JStr(name)]), JStr("hi")>>)])

Payloads ==
  { Payload("\"bye\"", Some(JStr("bye"))),
    Payload("{}", Some(JObj(<<>>))),
    Payload("{\"translate\":\"disconnect.closed\"}",
            Some(JObj([translate |-> JStr("disconnect.closed")]))),
    Payload("not json", None),
    Payload("<me> hi", Some(ChatOf("me"))),
    Payload("<you> hi", Some(ChatOf("you"))) }

Packets ==
  { [kind |-> "JoinGame"], [kind |-> "Other"] }
    \cup { [kind |-> "PlayDisconnect", text |-> x] : x \in Payloads }
    \cup { [kind |-> "ChatMessage", text |-> x] : x \in Payloads }

\* serde_json::from_str::<chat::Component>(text)
FromJsonStr(text) ==
  IF text.json.some THEN ResolveComponent(text.json.x) ELSE Err("syntax error")

\* The own-message filter of the ChatMessage arm: a "chat.type.text"
\* translation whose first argument is a Mixed string holding the username.
IsOwnEcho(msg) ==
  /\ msg.variant = "Translation"
  /\ Len(msg.inner.with) >= 1
  /\ msg.inner.with[1].variant = "String"
  /\ msg.inner.with[1].inner.variant = "Mixed"
  /\ msg.inner.translate = "chat.type.text"
  /\ msg.inner.with[1].inner.text = Username

InitMain ==
  /\ reconnect \in BOOLEAN
  /\ packets = <<>>
  /\ mpc = "read"
  /\ printed = "Connected!"
  /\ panicked = "no"
  /\ ChatIdle
  /\ AddrIdle

\* connect_to_server: a client, or exit(1), or a panic in authenticate().
Connected(outcome) ==
  /\ packets' = <<>>
  /\ CASE outcome = "ok" ->
            mpc' = "read" /\ printed' = "Connected!" /\ panicked' = "no"
       [] outcome = "exit" ->
            mpc' = "exited" /\ printed' = "Error connecting" /\ panicked' = "no"
       [] outcome = "panic" ->
            mpc' = "panicked" /\ printed' = "Reconnecting..." /\ panicked' = "authenticate"

\* client.read() returns Ok(packets)
ReadOk(batch) ==
  /\ mpc = "read"
  /\ packets' = batch
  /\ mpc' = "dispatch"
  /\ UNCHANGED <<reconnect, printed, panicked, chatVars, addrVars>>

\* client.read() returns Err and opt.reconnect is set
ReadErrReconnect(outcome) ==
  /\ mpc = "read"
  /\ reconnect
  /\ Connected(outcome)
  /\ UNCHANGED <<reconnect, chatVars, addrVars>>

\* client.read() returns Err otherwise
ReadErrExit ==
  /\ mpc = "read"
  /\ ~reconnect
  /\ printed' = "Error"
  /\ mpc' = "exited"
  /\ UNCHANGED <<reconnect, packets, panicked, chatVars, addrVars>>

\* ClientboundPacket::JoinGame: client.send(settings).unwrap()
HandleJoinGame(sent) ==
  /\ mpc = "dispatch" /\ packets # <<>>
  /\ Head(packets).kind = "JoinGame"
  /\ IF sent
     THEN mpc' = "dispatch" /\ panicked' = "no" /\ packets' = Tail(packets)
     ELSE mpc' = "panicked" /\ panicked' = "send" /\ packets' = packets
  /\ UNCHANGED <<reconnect, printed, chatVars, addrVars>>

\* ClientboundPacket::PlayDisconnect(ref p) if opt.reconnect
HandleDisconnectReconnect(outcome) ==
  /\ mpc = "dispatch" /\ packets # <<>>
  /\ Head(packets).kind = "PlayDisconnect"
  /\ reconnect
  /\ LET reason == FromJsonStr(Head(packets).text)
     IN IF reason.ok
        THEN Connected(outcome)
        ELSE /\ mpc' = "panicked"
             /\ panicked' = "unwrap"
             /\ UNCHANGED <<packets, printed>>
  /\ UNCHANGED <<reconnect, chatVars, addrVars>>

\* ClientboundPacket::PlayDisconnect(p)
HandleDisconnectExit ==
  /\ mpc = "dispatch" /\ packets # <<>>
  /\ Head(packets).kind = "PlayDisconnect"
  /\ ~reconnect
  /\ LET reason == FromJsonStr(Head(packets).text)
     IN IF reason.ok
        THEN /\ mpc' = "exited"
             /\ printed' = "Reason: " \o DisplayComponent(reason.v)
             /\ panicked' = "no"
        ELSE /\ mpc' = "panicked"
             /\ printed' = "Got disconnect packet, exiting..."
             /\ panicked' = "unwrap"
  /\ UNCHANGED <<reconnect, packets, chatVars, addrVars>>

\* ClientboundPacket::ChatMessage(p)
HandleChatMessage ==
  /\ mpc = "dispatch" /\ packets # <<>>
  /\ Head(packets).kind = "ChatMessage"
  /\ LET msg == FromJsonStr(Head(packets).text)
     IN printed' = IF msg.ok
                   THEN IF IsOwnEcho(msg.v) THEN printed
                        ELSE DisplayComponent(msg.v)
                   ELSE "Failed to parse message: " \o Head(packets).text.raw
  /\ packets' = Tail(packets)
  /\ UNCHANGED <<reconnect, mpc, panicked, chatVars, addrVars>>

\* _ => ()
HandleOther ==
  /\ mpc = "dispatch" /\ packets # <<>>
  /\ Head(packets).kind = "Other"
  /\ packets' = Tail(packets)
  /\ UNCHANGED <<reconnect, mpc, printed, panicked, chatVars, addrVars>>

\* After the batch: rx.recv_timeout(timeout), and client.send(chat).unwrap()
\* when a line was typed.
PollStdin(typed, sent) ==
  /\ mpc = "dispatch" /\ packets = <<>>
  /\ IF typed /\ ~sent
     THEN mpc' = "panicked" /\ panicked' = "send"
     ELSE mpc' = "read" /\ panicked' = "no"
  /\ UNCHANGED <<reconnect, packets, printed, chatVars, addrVars>>

ConnectOutcomes == {"ok", "exit", "panic"}

NextMain ==
  \/ \E batch \in SeqsUpTo(Packets, MaxBatch) : ReadOk(batch)
  \/ \E outcome \in ConnectOutcomes : ReadErrReconnect(outcome)
  \/ ReadErrExit
  \/ \E sent \in BOOLEAN : HandleJoinGame(sent)
  \/ \E outcome \in ConnectOutcomes : HandleDisconnectReconnect(outcome)
  \/ HandleDisconnectExit
  \/ HandleChatMessage
  \/ HandleOther
  \/ \E typed \in BOOLEAN, sent \in BOOLEAN : PollStdin(typed, sent)

SpecMain == InitMain /\ [][NextMain]_vars

----------------------------------------------------------------------------
(* Properties of the packet loop (specification SpecMain) *)

\* C8: no failure to resolve a chat text or a disconnect reason makes the
\* loop panic: the process never stops on the unwrap of a resolution result.
C8_ResolveErrorNotFatal == panicked # "unwrap"

====
